---- MODULE Spec2Model ----
(***************************************************************************)
(* Model of the FTMS Home Assistant integration (custom_components/ftms):  *)
(*   __init__.py     entry setup / unload, disconnect handler, delayed     *)
(*                   reload                                                *)
(*   coordinator.py  DataCoordinator (event path, poll path, flag)         *)
(*   connect.py      ftms_connect helper                                   *)
(*   sensor.py       sensor platform setup and value resolution            *)
(* The pyftms client and the Home Assistant core are the environment: the  *)
(* client has a link (up/down) and a need_connect flag, connect() and      *)
(* disconnect() are suspension points whose outcome is an input.           *)
(***************************************************************************)
EXTENDS Integers, FiniteSets, Sequences, TLC

(* ---- program constants ---- *)
RELOAD_DELAY == 5
CONNECT_TIMEOUT == 10

(* ---- bounds of the model ---- *)
MaxSessions == 2
MaxSensors == 2

(* ---- values ---- *)
None == [tag |-> "None"]
\* FtmsEvents(): the empty default snapshot
FtmsEvents == [tag |-> "empty"]
E1 == [tag |-> "event", power |-> 120, cadence |-> 85]
E2 == [tag |-> "event", power |-> 200, cadence |-> 90]
EventData == {E1, E2}
NoResult == [tag |-> "no_result"]

\* Python truthiness of a snapshot value: None and an empty mapping are falsy
Truthy(x) == x # None /\ x # FtmsEvents

\* `self._last_event or FtmsEvents()` / `if self._last_event: return ...`
LastEventOrDefault(last) == IF Truthy(last) THEN last ELSE FtmsEvents

\* outcomes of an awaited client connect()
ConnectOutcomes == {"ok", "char_not_found", "bleak_error", "other_error"}
\* durations (seconds) a setup connect may take
ConnectDurations == {1, CONNECT_TIMEOUT, 15}
\* outcomes of an awaited client disconnect()
DisconnectOutcomes == {"ok", "error"}

\* `"BleakCharacteristicNotFoundError" in str(exc)`
IsCharNotFound(outcome) == outcome = "char_not_found"

VARIABLES
  hass_running,      \* hass.is_running
  stop_pc,           \* _async_hass_stop_handler: "none" | "pending" | "disconnect" | "done"
  entry_exists,      \* hass.config_entries.async_get_entry(entry_id) is not None
  entry_state,       \* position of the entry's setup / unload
  setup_error,       \* translation key of the raised ConfigEntryNotReady, or "none"
  runtime_data,      \* entry.runtime_data has been stored
  platforms,         \* platforms have been forwarded
  session,           \* number of the current setup session (closure of _on_disconnect)
  need_connect,      \* ftms.need_connect
  link,              \* session of the current client: "down" | "up"
  orphan_link,       \* the client of an earlier setup session was left with its link up
  burst,             \* the client is still reporting the last link loss
  _connected,        \* DataCoordinator._connected
  _last_event,       \* DataCoordinator._last_event
  published,         \* last value given to async_set_updated_data
  poll_pc,           \* _async_update_data: "idle" | "connect" | "disconnect"
  poll_ret,          \* return value taken before the finally clause
  poll_reconnected,  \* observed: the connect() of the poll cycle in progress succeeded
  reload_scheduled,  \* hasattr(_on_disconnect, "reload_scheduled") of the current session
  tasks,             \* pending delayed_reload tasks
  helper_pc,         \* ftms_connect: "idle" | "connect"
  last_op,           \* observed: the last connection transition
  returned,          \* observed: what the operation that has just ended gave its caller
  sensors,           \* entry.options[CONF_SENSORS], stored as runtime_data.sensors
  available_properties, \* ftms.available_properties
  sensor_pc,         \* sensor platform: "init" | "ready"
  entities,          \* keys of the FtmsSensorEntity objects given to async_add_entities
  _attr_native_value, \* the reading of each entity
  resolved           \* observed: the attribute read of the value resolution that has just ended

vars == <<hass_running, stop_pc, entry_exists, entry_state, setup_error,
          runtime_data, platforms, session, need_connect,
          link, orphan_link, burst, _connected, _last_event, published, poll_pc, poll_ret,
          poll_reconnected, reload_scheduled, tasks, helper_pc, last_op, returned, sensors,
          available_properties, sensor_pc, entities, _attr_native_value, resolved>>

hostVars == <<hass_running, stop_pc, entry_exists>>
entryVars == <<entry_state, setup_error, runtime_data, platforms, session, orphan_link>>
pollVars == <<poll_pc, poll_ret, poll_reconnected>>
schedVars == <<reload_scheduled, tasks>>
sensorVars == <<sensors, available_properties, sensor_pc, entities, _attr_native_value, resolved>>
coreVars == <<hass_running, stop_pc, entry_exists, entry_state, setup_error,
              runtime_data, platforms, session, need_connect, link, orphan_link, burst,
              _connected, _last_event, published, poll_pc, poll_ret,
              poll_reconnected, reload_scheduled, tasks, helper_pc, last_op, returned>>

\* no operation has just ended
Nothing == [op |-> "none"]
\* no value resolution has just ended
NoRead == [entity |-> 0, kind |-> "none"]

Init ==
  /\ hass_running = TRUE
  /\ stop_pc = "none"
  /\ entry_exists = TRUE
  /\ entry_state = "not_loaded"
  /\ setup_error = "none"
  /\ runtime_data = FALSE
  /\ platforms = FALSE
  /\ session = 0
  /\ need_connect = FALSE
  /\ link = "down"
  /\ orphan_link = FALSE
  /\ burst = FALSE
  /\ _connected = FALSE
  /\ _last_event = None
  /\ published = None
  /\ poll_pc = "idle"
  /\ poll_ret = NoResult
  /\ poll_reconnected = FALSE
  /\ reload_scheduled = FALSE
  /\ tasks = {}
  /\ helper_pc = "idle"
  /\ last_op = "none"
  /\ returned = Nothing
  /\ sensors = << >>
  /\ available_properties = {}
  /\ sensor_pc = "init"
  /\ entities = << >>
  /\ _attr_native_value = << >>
  /\ resolved = NoRead

(* ------------------------------------------------------------------ *)
(* DataCoordinator                                                     *)
(* ------------------------------------------------------------------ *)

\* connection_lost() flipping the flag at every call
connection_lost_toggle(c) == ~c

\* connection_lost(): the flag after the call
connection_lost(c) == IF c THEN FALSE ELSE c

\* is_connected()
is_connected == _connected

(* ------------------------------------------------------------------ *)
(* _on_disconnect: the disconnect handler of the current session      *)
(* ------------------------------------------------------------------ *)

\* the delayed_reload task created by hass.async_create_task
NewTask == [sid |-> session, remaining |-> RELOAD_DELAY, age |-> 0,
            absorbed |-> FALSE, reconnected |-> FALSE]

\* the pending tasks once a notification has been absorbed by the marker
Absorb(ts) == {[t EXCEPT !.absorbed = (t.sid = session) \/ t.absorbed] : t \in ts}

\* the handler not looking at the client's need_connect flag
Unexpected_any == hass_running

\* `if ftms_.need_connect and hass.is_running`
Unexpected == need_connect /\ hass_running

\* _on_disconnect tearing the cached snapshot down with the connection
_on_disconnect_teardown ==
  IF Unexpected
  THEN IF ~reload_scheduled
       THEN [c |-> connection_lost(_connected), e |-> None,
             rs |-> TRUE, ts |-> tasks \cup {NewTask}]
       ELSE [c |-> connection_lost(_connected), e |-> None,
             rs |-> reload_scheduled, ts |-> Absorb(tasks)]
  ELSE [c |-> _connected, e |-> _last_event, rs |-> reload_scheduled, ts |-> tasks]

\* _on_disconnect without the reload_scheduled marker: every unexpected
\* notification creates a task
_on_disconnect_unmarked ==
  IF Unexpected
  THEN [c |-> connection_lost(_connected), e |-> _last_event,
        rs |-> TRUE, ts |-> tasks \cup {NewTask}]
  ELSE [c |-> _connected, e |-> _last_event, rs |-> reload_scheduled, ts |-> tasks]

\* state after _on_disconnect(ftms_) has run: flag, snapshot, marker, tasks
_on_disconnect ==
  IF Unexpected
  THEN IF ~reload_scheduled
       THEN [c |-> connection_lost(_connected), e |-> _last_event,
             rs |-> TRUE, ts |-> tasks \cup {NewTask}]
       ELSE [c |-> connection_lost(_connected), e |-> _last_event,
             rs |-> reload_scheduled, ts |-> Absorb(tasks)]
  ELSE [c |-> _connected, e |-> _last_event, rs |-> reload_scheduled, ts |-> tasks]

\* what the link going down was: an unexpected loss or a requested close
Transition == IF need_connect THEN "lost" ELSE "closed"

\* the client's link goes down (or the client repeats its report of the
\* last loss) and the client calls the registered handler
DisconnectNotify ==
  /\ session >= 1
  /\ link = "up" \/ burst
  /\ link' = "down"
  /\ burst' = TRUE
  /\ _connected' = _on_disconnect.c
  /\ _last_event' = _on_disconnect.e
  /\ reload_scheduled' = _on_disconnect.rs
  /\ tasks' = _on_disconnect.ts
  /\ last_op' = Transition
  /\ returned' = [op |-> "on_disconnect", lost_called |-> Unexpected,
                  before |-> _connected, snapshot |-> _last_event,
                  after_reload |-> returned.op \in {"delayed_reload", "cancelled"}]
  /\ UNCHANGED <<sensorVars, hostVars, entryVars, need_connect, published,
                 pollVars, helper_pc>>

\* time passes by one unit while every delayed_reload is still asleep
Tick ==
  /\ tasks # {}
  /\ \A t \in tasks : t.remaining > 0
  /\ tasks' = {[t EXCEPT !.remaining = @ - 1, !.age = @ + 1] : t \in tasks}
  /\ returned' = Nothing
  /\ UNCHANGED <<sensorVars, hostVars, entryVars, need_connect, link, burst,
                 _connected, _last_event, published, pollVars, helper_pc,
                 reload_scheduled, last_op>>

\* delayed_reload without its finally clause: the marker stays
MarkerAfter_kept(t) == reload_scheduled

\* lines 74-75, `finally: delattr(_on_disconnect, "reload_scheduled")`: the
\* marker of the current session's handler once task t has ended
MarkerAfter(t) == IF t.sid = session THEN FALSE ELSE reload_scheduled

\* delayed_reload reloading without looking the entry up
ShouldReload_blind == hass_running

\* lines 68-71: `if hass.is_running` and `if async_get_entry(entry_id)`:
\* async_schedule_reload is called
ShouldReload == hass_running /\ entry_exists

\* delayed_reload after `await asyncio.sleep(5)`
DelayedReloadFire(t) ==
  /\ t \in tasks
  /\ t.remaining = 0
  /\ reload_scheduled' = MarkerAfter(t)
  /\ tasks' = tasks \ {t}
  /\ returned' = [op |-> "delayed_reload", sid |-> t.sid, age |-> t.age,
                  absorbed |-> t.absorbed, reconnected |-> t.reconnected,
                  reloaded |-> ShouldReload]
  /\ UNCHANGED <<sensorVars, hostVars, entryVars, need_connect, link, burst, _connected,
                 _last_event, published, pollVars, helper_pc, last_op>>

\* delayed_reload cancelled during its sleep, as the stopping host does with
\* the tasks still pending: CancelledError passes `except Exception`, the
\* finally clause clears the marker, nothing is reloaded
DelayedReloadCancel(t) ==
  /\ t \in tasks
  /\ ~hass_running
  /\ t.remaining > 0
  /\ reload_scheduled' = MarkerAfter(t)
  /\ tasks' = tasks \ {t}
  /\ returned' = [op |-> "cancelled", sid |-> t.sid, age |-> t.age]
  /\ UNCHANGED <<sensorVars, hostVars, entryVars, need_connect, link, burst, _connected,
                 _last_event, published, pollVars, helper_pc, last_op>>

\* the pending tasks of this session once the connection is established again
Reconnected(ts) == {[t EXCEPT !.reconnected = (t.sid = session) \/ t.reconnected] : t \in ts}

\* _on_ftms_event updating the fields of the stored snapshot one by one and
\* stopping half way
_on_ftms_event_merge(old, data) ==
  [e |-> IF old \in EventData THEN [old EXCEPT !.power = data.power] ELSE data,
   c |-> TRUE, pub |-> data]

\* lines 33-41, _on_ftms_event(data): the coordinator after the handler has
\* run: snapshot, flag, value given to async_set_updated_data
_on_ftms_event(old, data) == [e |-> data, c |-> TRUE, pub |-> data]

\* the client pushes a telemetry event
OnFtmsEvent(data) ==
  /\ session >= 1
  /\ link = "up"
  /\ _last_event' = _on_ftms_event(_last_event, data).e
  /\ _connected' = _on_ftms_event(_last_event, data).c
  /\ published' = _on_ftms_event(_last_event, data).pub
  /\ last_op' = "event"
  /\ tasks' = Reconnected(tasks)
  /\ returned' = [op |-> "event", data |-> data]
  /\ UNCHANGED <<sensorVars, hostVars, entryVars, need_connect, link, burst,
                 pollVars, helper_pc, reload_scheduled>>

(* ------------------------------------------------------------------ *)
(* DataCoordinator._async_update_data: the poll cycle                  *)
(* ------------------------------------------------------------------ *)

\* the link closes at the end of an awaited disconnect(): the client calls
\* the handler if the link was still up
CloseLink ==
  IF link = "up"
  THEN [c |-> _on_disconnect.c, e |-> _on_disconnect.e, rs |-> _on_disconnect.rs,
        ts |-> _on_disconnect.ts, op |-> Transition]
  ELSE [c |-> _connected, e |-> _last_event, rs |-> reload_scheduled, ts |-> tasks,
        op |-> last_op]

\* the value a poll cycle gives the update coordinator
PollResult(value) == [op |-> "poll", value |-> value, reconnected |-> poll_reconnected]

\* lines 62-72: the return value is taken, then the finally clause calls
\* disconnect(), which suspends only if the link is up; otherwise the flag is
\* cleared and the cycle ends at once
PollReturn(linkNow, obs) ==
  /\ need_connect' = FALSE
  /\ IF linkNow = "up"
     THEN /\ poll_pc' = "disconnect"
          /\ poll_ret' = LastEventOrDefault(_last_event)
          /\ poll_reconnected' = (obs.op = "poll_connect")
          /\ _connected' = TRUE
          /\ returned' = obs
     ELSE /\ poll_pc' = "idle"
          /\ poll_ret' = NoResult
          /\ poll_reconnected' = FALSE
          /\ _connected' = FALSE
          /\ returned' = PollResult(LastEventOrDefault(_last_event))

\* lines 45-51, and 62-72 when the flag is set
PollBegin ==
  /\ entry_state = "loaded"
  /\ poll_pc = "idle"
  /\ IF ~_connected
     THEN /\ need_connect' = TRUE
          /\ poll_pc' = "connect"
          /\ returned' = Nothing
          /\ UNCHANGED <<_connected, poll_ret, poll_reconnected>>
     ELSE PollReturn(link, Nothing)
  /\ UNCHANGED <<sensorVars, hostVars, entryVars, link, burst, _last_event,
                 published, helper_pc, schedVars, last_op>>

\* lines 51-72: the awaited connect() ends
PollConnectDone(outcome) ==
  /\ poll_pc = "connect"
  /\ IF outcome = "ok" \/ IsCharNotFound(outcome)
     THEN /\ link' = "up"
          /\ burst' = FALSE
          /\ PollReturn("up", [op |-> "poll_connect", outcome |-> outcome])
          /\ last_op' = "poll_connect"
          /\ tasks' = Reconnected(tasks)
     ELSE /\ poll_pc' = "idle"
          /\ poll_ret' = NoResult
          /\ poll_reconnected' = FALSE
          /\ returned' = PollResult(LastEventOrDefault(_last_event))
          /\ UNCHANGED <<link, burst, _connected, need_connect, last_op, tasks>>
  /\ UNCHANGED <<sensorVars, hostVars, entryVars, _last_event, published,
                 helper_pc, reload_scheduled>>

\* lines 68-72: the awaited disconnect() ends
PollDisconnectDone(outcome) ==
  /\ poll_pc = "disconnect"
  /\ IF outcome = "ok"
     THEN /\ link' = "down"
          /\ _last_event' = CloseLink.e
          /\ reload_scheduled' = CloseLink.rs
          /\ tasks' = CloseLink.ts
          /\ last_op' = CloseLink.op
     ELSE UNCHANGED <<link, _last_event, reload_scheduled, tasks, last_op>>
  /\ _connected' = FALSE
  /\ poll_pc' = "idle"
  /\ poll_ret' = NoResult
  /\ poll_reconnected' = FALSE
  /\ returned' = PollResult(poll_ret)
  /\ UNCHANGED <<sensorVars, hostVars, entryVars, need_connect, burst,
                 published, helper_pc>>

(* ------------------------------------------------------------------ *)
(* connect.py: ftms_connect                                            *)
(* ------------------------------------------------------------------ *)

\* what ftms_connect gives its caller for an outcome of ftms.connect()
FtmsConnectResult(outcome) ==
  CASE outcome = "ok" -> "ok"
    [] outcome \in {"char_not_found", "bleak_error"} -> "connection_failed"
    [] OTHER -> "error"

\* line 8: connect() is called and awaited
ftms_connect_begin ==
  /\ entry_state = "loaded"
  /\ helper_pc = "idle"
  /\ helper_pc' = "connect"
  /\ need_connect' = TRUE
  /\ returned' = Nothing
  /\ UNCHANGED <<sensorVars, hostVars, entryVars, link, burst, _connected,
                 _last_event, published, pollVars, schedVars, last_op>>

\* lines 8-13: the awaited connect() ends
ftms_connect_done(outcome) ==
  /\ helper_pc = "connect"
  /\ helper_pc' = "idle"
  /\ returned' = [op |-> "ftms_connect", outcome |-> outcome,
                  result |-> FtmsConnectResult(outcome)]
  /\ IF outcome \in {"ok", "char_not_found"}
     THEN link' = "up" /\ burst' = FALSE /\ last_op' = "helper_connect"
     ELSE UNCHANGED <<link, burst, last_op>>
  /\ UNCHANGED <<sensorVars, hostVars, entryVars, need_connect, _connected,
                 _last_event, published, pollVars, schedVars>>

(* ------------------------------------------------------------------ *)
(* __init__.py: async_setup_entry                                      *)
(* ------------------------------------------------------------------ *)

\* awaiting the connect without a timeout
WaitForEver(d, o) == {o}

\* asyncio.wait_for(ftms.connect(), timeout=10.0): how the await can end for
\* a connect that takes d seconds and would end with outcome o
WaitFor(d, o) ==
  IF d > CONNECT_TIMEOUT THEN {"timeout"}
  ELSE IF d = CONNECT_TIMEOUT THEN {"timeout", o}
  ELSE {o}

\* the translation key of the ConfigEntryNotReady raised for an ending of the
\* setup connect ("none": setup continues, "error": another exception)
SetupConnectError(ending) ==
  CASE ending = "timeout" -> "connection_timeout"
    [] ending = "ok" -> "none"
    [] ending \in {"char_not_found", "bleak_error"} ->
         IF IsCharNotFound(ending) THEN "none" ELSE "connection_failed"
    [] OTHER -> "error"

\* a setup that, when it fails, schedules a delayed reload to retry
TasksAfterSetup_retry(error) == IF error # "none" THEN tasks \cup {NewTask} ELSE tasks

\* lines 51-99: the pending tasks once setup has ended with `error`: every
\* failure path only raises, nothing is scheduled
TasksAfterSetup(error) == tasks

\* what async_setup_entry gave its caller
SetupResult(d, ending, error) == [op |-> "setup", d |-> d, ending |-> ending, error |-> error]

\* lines 51-91: service info, client, coordinator, then the connect is awaited.
\* A further session gets a new client, coordinator and handler; it is set up
\* once the poll cycle, ftms_connect call and delayed reloads of the previous
\* session have ended.
SetupBegin(found, is_ftms) ==
  /\ entry_exists
  /\ hass_running
  /\ entry_state \in {"not_loaded", "not_ready"}
  /\ poll_pc = "idle" /\ helper_pc = "idle"
  /\ IF ~found \/ ~is_ftms
     THEN /\ entry_state' = "not_ready"
          /\ setup_error' = IF ~found THEN "device_not_found" ELSE "ftms_error"
          /\ returned' = SetupResult(0, "none", setup_error')
          /\ tasks' = TasksAfterSetup(setup_error')
          /\ UNCHANGED <<session, need_connect, link, orphan_link, burst, _connected,
                         _last_event, published, reload_scheduled, last_op>>
     ELSE /\ session < MaxSessions
          /\ tasks = {}
          /\ session' = session + 1
          /\ entry_state' = "connecting"
          /\ setup_error' = "none"
          /\ need_connect' = TRUE
          /\ link' = "down"
          /\ orphan_link' = (orphan_link \/ link = "up")
          /\ burst' = FALSE
          /\ _connected' = FALSE
          /\ _last_event' = None
          /\ published' = None
          /\ reload_scheduled' = FALSE
          /\ last_op' = "none"
          /\ returned' = Nothing
          /\ UNCHANGED tasks
  /\ UNCHANGED <<sensorVars, hostVars, runtime_data, platforms, pollVars, helper_pc>>

\* lines 91-177: the awaited connect ends, the rest of setup runs
async_setup_entry(d, outcome, ending) ==
  /\ entry_state = "connecting"
  /\ ending \in WaitFor(d, outcome)
  /\ setup_error' = SetupConnectError(ending)
  /\ returned' = SetupResult(d, ending, SetupConnectError(ending))
  /\ IF SetupConnectError(ending) = "none"
     THEN /\ link' = "up"
          /\ runtime_data' = TRUE
          /\ platforms' = TRUE
          /\ entry_state' = "loaded"
          /\ last_op' = "setup_connect"
     ELSE /\ entry_state' = IF SetupConnectError(ending) = "error"
                            THEN "setup_error" ELSE "not_ready"
          /\ UNCHANGED <<link, runtime_data, platforms, last_op>>
  /\ tasks' = TasksAfterSetup(SetupConnectError(ending))
  /\ UNCHANGED <<sensorVars, hostVars, session, orphan_link, need_connect, burst,
                 _connected, _last_event, published, pollVars, helper_pc,
                 reload_scheduled>>

(* ------------------------------------------------------------------ *)
(* __init__.py: async_unload_entry                                     *)
(* ------------------------------------------------------------------ *)

\* line 45: what async_unload_entry gave its caller
UnloadResult(unload_ok) == [op |-> "unload", unload_ok |-> unload_ok]

\* lines 41-42: platforms are unloaded, then disconnect() is awaited (it
\* suspends only if the link is up; the runtime data goes with the entry
\* once it is unloaded)
UnloadBegin(unload_ok) ==
  /\ entry_state = "loaded"
  /\ IF unload_ok
     THEN /\ platforms' = FALSE
          /\ need_connect' = FALSE
          /\ entry_state' = IF link = "up" THEN "unloading" ELSE "not_loaded"
          /\ runtime_data' = (link = "up")
          /\ returned' = IF link = "up" THEN Nothing ELSE UnloadResult(unload_ok)
     ELSE /\ entry_state' = "failed_unload"
          /\ returned' = UnloadResult(unload_ok)
          /\ UNCHANGED <<platforms, need_connect, runtime_data>>
  /\ UNCHANGED <<sensorVars, hostVars, setup_error, session, orphan_link, link, burst,
                 _connected, _last_event, published, pollVars, helper_pc,
                 schedVars, last_op>>

\* lines 42-45: the awaited disconnect() ends
async_unload_entry(outcome) ==
  /\ entry_state = "unloading"
  /\ IF outcome = "ok"
     THEN /\ link' = "down"
          /\ _connected' = CloseLink.c
          /\ _last_event' = CloseLink.e
          /\ reload_scheduled' = CloseLink.rs
          /\ tasks' = CloseLink.ts
          /\ last_op' = CloseLink.op
          /\ entry_state' = "not_loaded"
          /\ runtime_data' = FALSE
          /\ returned' = UnloadResult(TRUE)
     ELSE /\ entry_state' = "failed_unload"
          /\ returned' = Nothing
          /\ UNCHANGED <<link, _connected, _last_event, reload_scheduled, tasks,
                         last_op, runtime_data>>
  /\ UNCHANGED <<sensorVars, hostVars, setup_error, platforms, session,
                 orphan_link, need_connect, burst, published, pollVars, helper_pc>>

(* ------------------------------------------------------------------ *)
(* Home Assistant stops; _async_hass_stop_handler                      *)
(* ------------------------------------------------------------------ *)

\* the core leaves the running state and fires EVENT_HOMEASSISTANT_STOP
HassStop ==
  /\ hass_running
  /\ hass_running' = FALSE
  /\ stop_pc' = IF entry_state = "loaded" THEN "pending" ELSE "none"
  /\ returned' = Nothing
  /\ UNCHANGED <<sensorVars, entry_exists, entryVars, need_connect, link,
                 burst, _connected, _last_event, published, pollVars, helper_pc,
                 schedVars, last_op>>

\* line 171: disconnect() is called and awaited
StopHandlerBegin ==
  /\ stop_pc = "pending"
  /\ need_connect' = FALSE
  /\ stop_pc' = IF link = "up" THEN "disconnect" ELSE "done"
  /\ returned' = Nothing
  /\ UNCHANGED <<sensorVars, hass_running, entry_exists, entryVars, link,
                 burst, _connected, _last_event, published, pollVars, helper_pc,
                 schedVars, last_op>>

\* line 171: the awaited disconnect() ends
_async_hass_stop_handler(outcome) ==
  /\ stop_pc = "disconnect"
  /\ stop_pc' = "done"
  /\ IF outcome = "ok"
     THEN /\ link' = "down"
          /\ _connected' = CloseLink.c
          /\ _last_event' = CloseLink.e
          /\ reload_scheduled' = CloseLink.rs
          /\ tasks' = CloseLink.ts
          /\ last_op' = CloseLink.op
     ELSE UNCHANGED <<link, _connected, _last_event, reload_scheduled, tasks, last_op>>
  /\ returned' = Nothing
  /\ UNCHANGED <<sensorVars, hass_running, entry_exists, entryVars, need_connect,
                 burst, published, pollVars, helper_pc>>

\* the config entry is removed from the registry
RemoveEntry ==
  /\ entry_exists
  /\ entry_state \in {"not_loaded", "not_ready", "setup_error", "failed_unload"}
  /\ entry_exists' = FALSE
  /\ returned' = Nothing
  /\ UNCHANGED <<sensorVars, hass_running, stop_pc, entryVars, need_connect,
                 link, burst, _connected, _last_event, published, pollVars,
                 helper_pc, schedVars, last_op>>

(* ------------------------------------------------------------------ *)
(* sensor.py: the sensor platform                                      *)
(* ------------------------------------------------------------------ *)

\* sensor keys a configuration may select ("power" has no description)
SensorKeys == {"power", "power_output", "cadence", "heart_rate"}

\* keys of SENSOR_DESCRIPTIONS (those among SensorKeys)
SENSOR_DESCRIPTIONS == {"power_output", "cadence", "heart_rate"}

\* what reading an attribute of the client can give: the attribute is
\* missing, the read raises, or a number or an Enum member is read
AttributeReads ==
  {[kind |-> "missing"], [kind |-> "raises"],
   [kind |-> "int", v |-> 120], [kind |-> "enum", name |-> "IDLE"],
   [kind |-> "enum", name |-> "MANUAL_MODE"]}

\* str.lower() of the names of the Enum members read
Lower(name) ==
  CASE name = "IDLE" -> "idle"
    [] name = "MANUAL_MODE" -> "manual_mode"

\* lines 194-202, _update_value: the reading after the attribute has been read
_update_value(old, read) ==
  CASE read.kind = "raises" -> old
    [] read.kind = "missing" -> None
    [] read.kind = "enum" -> [tag |-> "str", v |-> Lower(read.name)]
    [] OTHER -> [tag |-> "int", v |-> read.v]

\* lines 169-179: the keys for which an entity is built
BuildEntities(keys) == SelectSeq(keys, LAMBDA k : k \in SENSOR_DESCRIPTIONS)

\* lines 161-192: async_setup_entry of the platform; every entity resolves
\* its value once in __init__, starting from None
sensor_async_setup_entry(reads) ==
  /\ sensor_pc = "init"
  /\ runtime_data
  /\ Len(reads) = Len(BuildEntities(sensors))
  /\ sensor_pc' = "ready"
  /\ entities' = BuildEntities(sensors)
  /\ _attr_native_value' = [i \in 1..Len(reads) |-> _update_value(None, reads[i])]
  /\ resolved' = NoRead
  /\ UNCHANGED <<coreVars, sensors, available_properties>>

\* lines 204-208: _handle_coordinator_update of entity i
_handle_coordinator_update(i, read) ==
  /\ sensor_pc = "ready"
  /\ i \in 1..Len(entities)
  /\ _attr_native_value' = [_attr_native_value EXCEPT ![i] = _update_value(@, read)]
  /\ resolved' = [entity |-> i, kind |-> read.kind]
  /\ UNCHANGED <<coreVars, sensors, available_properties, sensor_pc, entities>>

(* ------------------------------------------------------------------ *)
(* The integration                                                     *)
(* ------------------------------------------------------------------ *)

Next ==
  \/ \E found \in BOOLEAN, is_ftms \in BOOLEAN : SetupBegin(found, is_ftms)
  \/ \E d \in ConnectDurations, o \in ConnectOutcomes, e \in ConnectOutcomes \cup {"timeout"} :
       async_setup_entry(d, o, e)
  \/ \E data \in EventData : OnFtmsEvent(data)
  \/ DisconnectNotify
  \/ Tick
  \/ \E t \in tasks : DelayedReloadFire(t)
  \/ \E t \in tasks : DelayedReloadCancel(t)
  \/ PollBegin
  \/ \E o \in ConnectOutcomes : PollConnectDone(o)
  \/ \E o \in DisconnectOutcomes : PollDisconnectDone(o)
  \/ ftms_connect_begin
  \/ \E o \in ConnectOutcomes : ftms_connect_done(o)
  \/ \E ok \in BOOLEAN : UnloadBegin(ok)
  \/ \E o \in DisconnectOutcomes : async_unload_entry(o)
  \/ HassStop
  \/ StopHandlerBegin
  \/ \E o \in DisconnectOutcomes : _async_hass_stop_handler(o)
  \/ RemoveEntry

Spec == Init /\ [][Next]_vars

(* ------------------------------------------------------------------ *)
(* One setup session, from its successful setup on                     *)
(* ------------------------------------------------------------------ *)

\* the entry after async_setup_entry has returned True: connected, runtime
\* data stored, platforms forwarded, handler and marker of this session
InitLive ==
  /\ hass_running = TRUE
  /\ stop_pc = "none"
  /\ entry_exists = TRUE
  /\ entry_state = "loaded"
  /\ setup_error = "none"
  /\ runtime_data = TRUE
  /\ platforms = TRUE
  /\ session = 1
  /\ need_connect = TRUE
  /\ link = "up"
  /\ orphan_link = FALSE
  /\ burst = FALSE
  /\ _connected = FALSE
  /\ _last_event = None
  /\ published = None
  /\ poll_pc = "idle"
  /\ poll_ret = NoResult
  /\ poll_reconnected = FALSE
  /\ reload_scheduled = FALSE
  /\ tasks = {}
  /\ helper_pc = "idle"
  /\ last_op = "setup_connect"
  /\ returned = Nothing
  /\ sensors = << >>
  /\ available_properties = {}
  /\ sensor_pc = "init"
  /\ entities = << >>
  /\ _attr_native_value = << >>
  /\ resolved = NoRead

\* what can happen to the session until the entry is set up again
NextLive ==
  \/ \E data \in EventData : OnFtmsEvent(data)
  \/ DisconnectNotify
  \/ Tick
  \/ \E t \in tasks : DelayedReloadFire(t)
  \/ \E t \in tasks : DelayedReloadCancel(t)
  \/ PollBegin
  \/ \E o \in ConnectOutcomes : PollConnectDone(o)
  \/ \E o \in DisconnectOutcomes : PollDisconnectDone(o)
  \/ \E ok \in BOOLEAN : UnloadBegin(ok)
  \/ \E o \in DisconnectOutcomes : async_unload_entry(o)
  \/ HassStop
  \/ StopHandlerBegin
  \/ \E o \in DisconnectOutcomes : _async_hass_stop_handler(o)
  \/ RemoveEntry

\* the event loop lets time pass for a sleeping delayed_reload and resumes it
\* when its sleep has ended
SpecLive ==
  /\ InitLive /\ [][NextLive]_vars
  /\ WF_vars(Tick)
  /\ WF_vars(\E t \in tasks : DelayedReloadFire(t))

(* ------------------------------------------------------------------ *)
(* The sensor platform of a set-up entry                               *)
(* ------------------------------------------------------------------ *)

\* sequences of at most n sensor keys
KeySeqs(n) == UNION {[1..m -> SensorKeys] : m \in 0..n}

\* sequences of n attribute reads
ReadSeqs(n) == [1..n -> AttributeReads]

\* the entry after lines 51-141 of async_setup_entry: connected, runtime
\* data stored with the configured sensors, the platforms being forwarded
InitSensor ==
  /\ hass_running = TRUE
  /\ stop_pc = "none"
  /\ entry_exists = TRUE
  /\ entry_state = "loaded"
  /\ setup_error = "none"
  /\ runtime_data = TRUE
  /\ platforms = TRUE
  /\ session = 1
  /\ need_connect = TRUE
  /\ link = "up"
  /\ orphan_link = FALSE
  /\ burst = FALSE
  /\ _connected = FALSE
  /\ _last_event = None
  /\ published = None
  /\ poll_pc = "idle"
  /\ poll_ret = NoResult
  /\ poll_reconnected = FALSE
  /\ reload_scheduled = FALSE
  /\ tasks = {}
  /\ helper_pc = "idle"
  /\ last_op = "setup_connect"
  /\ returned = Nothing
  /\ sensors \in KeySeqs(MaxSensors)
  /\ available_properties \in SUBSET SensorKeys
  /\ sensor_pc = "init"
  /\ entities = << >>
  /\ _attr_native_value = << >>
  /\ resolved = NoRead

NextSensor ==
  \/ \E reads \in ReadSeqs(Len(BuildEntities(sensors))) : sensor_async_setup_entry(reads)
  \/ \E i \in 1..MaxSensors, read \in AttributeReads : _handle_coordinator_update(i, read)

SpecSensor == InitSensor /\ [][NextSensor]_vars

(* ------------------------------------------------------------------ *)
(* Properties                                                          *)
(* ------------------------------------------------------------------ *)

\* the delayed_reload tasks created by the handler of session sid that are
\* still pending
Pending(sid) == {t \in tasks : t.sid = sid}

\* C1: a session never has more than one pending delayed reload, and a
\* delayed reload ends its sleep RELOAD_DELAY units after the notification
\* that created it, whatever notifications arrived in between.
C1_OnePendingReload ==
  /\ \A sid \in 1..MaxSessions : Cardinality(Pending(sid)) <= 1
  /\ returned.op = "delayed_reload" => returned.age = RELOAD_DELAY

\* C1 witness: a reload performed by a task that absorbed a second
\* notification during its delay
C1_Witness ==
  /\ returned.op = "delayed_reload"
  /\ returned.absorbed
  /\ returned.reloaded
  /\ returned.age = RELOAD_DELAY
  /\ tasks = {}


\* the transitions that establish the connection, and those that end it
Establishing == {"setup_connect", "poll_connect", "event"}
Ending == {"lost", "closed"}

\* C2: is_connected() is true exactly when the most recent connect/disconnect
\* transition established the connection, false exactly when it lost or
\* closed it.
C2_ReflectsLastTransition ==
  /\ last_op \in Establishing => is_connected
  /\ last_op \in Ending => ~is_connected

C4_PollServesLatest ==
  returned.op = "poll" =>
    /\ returned.value \notin {None, NoResult}
    /\ returned.value = (IF published # None THEN published ELSE FtmsEvents)

\* C5: every stored, published, taken or returned snapshot is one whole
\* event (or the empty default / nothing yet), never a mix of two events, and
\* right after a telemetry event the stored and the published snapshot are
\* that event and the coordinator is connected.
C5_SnapshotReplacedWhole ==
  /\ _last_event \in EventData \cup {None}
  /\ published \in EventData \cup {None}
  /\ poll_ret \in EventData \cup {FtmsEvents, NoResult}
  /\ returned.op = "poll" => returned.value \in EventData \cup {FtmsEvents}
  /\ returned.op = "event" =>
       /\ _last_event = returned.data
       /\ published = returned.data
       /\ is_connected

\* C5 witness: event E2 replaces E1 while a poll cycle that took E1 is
\* suspended in disconnect()
C5_Witness ==
  /\ returned.op = "event"
  /\ returned.data = E2
  /\ _last_event = E2
  /\ poll_pc = "disconnect"
  /\ poll_ret = E1

\* C6: after the platform is set up, every sensor for which an entity was
\* built is one the device reports (available_properties).
C6_EntitiesWithinCapabilities ==
  sensor_pc = "ready" => \A i \in 1..Len(entities) : entities[i] \in available_properties

\* C7: after a value resolution whose attribute read found the attribute
\* missing or raised, the reading of that sensor is None.
C7_AbsentOnFailedRead ==
  resolved.kind \in {"missing", "raises"} => _attr_native_value[resolved.entity] = None

\* the not-ready reasons of a hard connect failure
HardFailures == {"connection_timeout", "connection_failed"}

\* C8: a setup connect that exceeds CONNECT_TIMEOUT ends setup with
\* connection_timeout, a BleakError other than a missing characteristic with
\* connection_failed, and after either the entry is not ready: no runtime
\* data, no platforms, coordinator and link disconnected.
C8_HardFailureNotReady ==
  returned.op = "setup" =>
    /\ returned.d > CONNECT_TIMEOUT => returned.error = "connection_timeout"
    /\ returned.ending = "timeout" => returned.error = "connection_timeout"
    /\ returned.ending = "bleak_error" => returned.error = "connection_failed"
    /\ returned.error \in HardFailures =>
         /\ setup_error = returned.error
         /\ entry_state = "not_ready"
         /\ ~runtime_data
         /\ ~platforms
         /\ ~is_connected
         /\ link = "down"

\* C8 witness: a setup connect that took 15 seconds has ended with
\* connection_timeout and nothing set up
C8_Witness ==
  /\ returned.op = "setup"
  /\ returned.d = 15
  /\ returned.error = "connection_timeout"
  /\ entry_state = "not_ready"
  /\ ~runtime_data

\* C9: in the setup connect, the poll reconnect and ftms_connect alike, a
\* connect that failed only for a missing characteristic counts as a success.
C9_SoftSuccessEverywhere ==
  /\ (returned.op = "setup" /\ returned.ending = "char_not_found") =>
       (returned.error = "none" /\ entry_state = "loaded")
  /\ (returned.op = "poll_connect" /\ returned.outcome = "char_not_found") =>
       is_connected
  /\ (returned.op = "ftms_connect" /\ returned.outcome = "char_not_found") =>
       returned.result = "ok"

\* C10: a delayed reload during whose delay the connection was established
\* again (telemetry event or successful reconnect) performs no reload.
C10_CancelledOnReconnect ==
  (returned.op = "delayed_reload" /\ returned.reconnected) => ~returned.reloaded

\* C11: a delayed reload of the current session that ends its sleep after
\* the entry has been unloaded, or after the host has begun stopping,
\* performs no reload.
C11_TeardownCancelsReload ==
  (/\ returned.op = "delayed_reload"
   /\ returned.sid = session
   /\ entry_state = "not_loaded" \/ ~hass_running) => ~returned.reloaded

\* C12: a disconnect notification delivered while the client's need_connect
\* flag is clear (the link closing after disconnect() from unload, from the
\* stop handler or from the end of a poll cycle, or reported by the client)
\* creates no delayed reload, leaves the marker alone and, outside the
\* poll's own finally clause, leaves the connected flag as it was.
C12_OnlyUnexpectedLossSchedules ==
  [][(/\ ~need_connect
      /\ session' = session
      /\ returned'.op = "on_disconnect" \/ (link = "up" /\ link' = "down"))
     => /\ tasks' = tasks
        /\ reload_scheduled' = reload_scheduled
        /\ poll_pc' = poll_pc => _connected' = _connected]_vars

\* C12 witness: the handler has just run with the flag clear on a connected
\* coordinator of a running host: still connected, nothing scheduled
C12_Witness ==
  /\ returned.op = "on_disconnect"
  /\ ~returned.lost_called
  /\ ~need_connect
  /\ hass_running
  /\ is_connected
  /\ tasks = {}
  /\ ~reload_scheduled

\* C13: connect() is called (by a poll cycle or by ftms_connect) only on a
\* client whose link is down, and a new setup session gets its client only
\* when the link of the previous client is down.
C13_OneOpenSession ==
  [][/\ (poll_pc = "idle" /\ poll_pc' = "connect") => link = "down"
     /\ (helper_pc = "idle" /\ helper_pc' = "connect") => link = "down"
     /\ session' # session => link = "down"]_vars

C15_ReconnectedPollConnected ==
  (returned.op = "poll" /\ returned.reconnected /\ link = "up") => is_connected

\* C16: connection_lost() is idempotent: from either value of the flag,
\* calling it twice gives what calling it once gives, a cleared flag; and
\* when the handler has just called it, the flag is false and the snapshot is
\* the one held before the call, also when the flag was already false.
C16_ConnectionLostIdempotent ==
  /\ connection_lost(connection_lost(_connected)) = connection_lost(_connected)
  /\ connection_lost(_connected) = FALSE
  /\ (returned.op = "on_disconnect" /\ returned.lost_called) =>
       /\ ~is_connected
       /\ _last_event = returned.snapshot
       /\ ~returned.before => is_connected = returned.before

\* C16 witness: connection_lost() has just been called a second time in a
\* row (the notification was absorbed by the pending task), the flag was
\* already false, the snapshot E1 is still held
C16_Witness ==
  /\ returned.op = "on_disconnect"
  /\ returned.lost_called
  /\ ~returned.before
  /\ \E t \in tasks : t.absorbed
  /\ _last_event = E1
  /\ ~is_connected

\* C17: when a poll cycle that reconnected has completed, is_connected()
\* reflects the last transition observed: a telemetry event or a link
\* closing seen since the reconnect was observed while the cycle was
\* suspended in disconnect(); after an event is_connected() is true, after a
\* loss or a close it is false.
C17_LastObservedWins ==
  (returned.op = "poll" /\ returned.reconnected) =>
    /\ last_op = "event" => is_connected
    /\ last_op \in Ending => ~is_connected

\* C18: the step in which a delayed reload ends its sleep performs the
\* reload exactly if the host is running and the entry exists at that
\* moment; in either case it changes nothing but its own task and marker
\* (nothing is raised into the entry, the coordinator or the client).
C18_ReloadIffRunningAndExists ==
  [][returned'.op = "delayed_reload" =>
       /\ returned'.reloaded <=> (hass_running /\ entry_exists)
       /\ UNCHANGED <<hostVars, entryVars, need_connect, link, _connected,
                      _last_event, published, pollVars, helper_pc, last_op>>]_vars

\* C18 witness: a delayed reload has ended its sleep on a running host after
\* the entry was removed, and reloaded nothing
C18_Witness ==
  /\ returned.op = "delayed_reload"
  /\ hass_running
  /\ ~entry_exists
  /\ ~returned.reloaded
  /\ tasks = {}
  /\ ~reload_scheduled

\* C19: when async_unload_entry has returned, whatever the unloading of the
\* platforms gave, disconnect() has been called on the client (need_connect
\* is clear), the link is down and is_connected() is false.
C19_UnloadForcesDisconnected ==
  returned.op = "unload" =>
    /\ ~need_connect
    /\ link = "down"
    /\ ~is_connected

\* C20: the marker is set exactly while a delayed reload of the current
\* session is pending; a set marker is eventually cleared (the delayed reload
\* ends by reloading, abandoning or being cancelled); and an unexpected
\* disconnect handled while the marker is clear creates a new delayed reload
\* and sets the marker.
C20_MarkerNeverSticks ==
  /\ [](reload_scheduled <=> Pending(session) # {})
  /\ reload_scheduled ~> ~reload_scheduled
  /\ [][(returned'.op = "on_disconnect" /\ returned'.lost_called /\ ~reload_scheduled) =>
         /\ reload_scheduled'
         /\ tasks' = tasks \cup {NewTask}
         /\ NewTask \notin tasks]_vars

\* C20 witness: right after a delayed reload of the session has ended its
\* sleep, an unexpected disconnect has created the next one
C20_Witness ==
  /\ returned.op = "on_disconnect"
  /\ returned.lost_called
  /\ returned.after_reload
  /\ reload_scheduled
  /\ tasks = {NewTask}

====
